---- MODULE Spec2Model ----
(***************************************************************************)
(* A model of the RedBus review pipeline: the database loader              *)
(* (src/db/load.py, src/db/schema.py), the browser scraper                 *)
(* (src/scraper/redbus_scraper.py) with its scroll loop, the ETL pipeline  *)
(* (src/etl/process_reviews.py), the sentiment analyzer                    *)
(* (src/sentiment/analyzer.py) and the dashboard's filters (app.py).  Each *)
(* component is a sequential program; its steps are the actions of its own *)
(* specification.                                                          *)
(***************************************************************************)
EXTENDS Integers, Sequences, FiniteSets, TLC

\* None / NaN of a string-valued cell or attribute.
NULL == "<absent>"

\* None / NaN of a number-valued cell: the empty tuple; a present number n is <<n>>.
NaN == << >>

Range(s) == {s[i] : i \in 1..Len(s)}

SeqsUpTo(S, n) == UNION {[1..k -> S] : k \in 0..n}

SetMax(S) == CHOOSE m \in S : \A x \in S : x <= m

(***************************************************************************)
(* Bounds.                                                                 *)
(***************************************************************************)
\* loader invocations in one behaviour
MaxRuns == 2
\* data rows of one buses.csv
MaxBusRows == 1
\* data rows of one reviews.csv
MaxReviewRows == 1
\* days of one scrape run (--days)
MaxDays == 2
\* listing cards on one day's page
MaxCards == 2
\* review cards in one review panel
MaxPanelReviews == 1
\* raw records of an ETL run whose keys and dates vary
MaxDedupRows == 2
\* raw records of an ETL run whose ratings and threshold vary
MaxRatingRows == 2
\* raw records of an ETL run whose buses and ratings vary
MaxAggRows == 3
\* rows of the review table the dashboard filters
MaxTableRows == 2
\* SCRAPER_SETTINGS.max_scroll_attempts is at most this
MaxScrollAttempts == 2
\* document.body.scrollHeight is between 1 and this
MaxHeight == 3
\* scrolls of one _scroll_to_bottom call
MaxScrolls == 5

VARIABLES
    \* ---- database loader ----
    dbBuses,        \* committed rows of table buses
    dbReviews,      \* committed rows of table reviews
    session,        \* "none" | "open" | "closed": the Session of this invocation
    txBuses,        \* table buses as the session's open transaction sees it
    txReviews,      \* table reviews as the session's open transaction sees it
    pendingBuses,   \* Bus objects added to the session, not yet flushed
    pendingReviews, \* Review objects added to the session, not yet flushed
    args,           \* the invocation: --replace and the two curated files
    loadPc,         \* position in load.main
    loadExc,        \* exception in flight / the invocation's result
    preBuses,       \* table buses when the invocation started (history)
    preReviews,     \* table reviews when the invocation started (history)
    runs,           \* invocations started so far
    \* ---- browser scraper ----
    days,           \* self.days
    sample,         \* RAW_DATA_DIR / "sample_reviews.json"
    scrPc,          \* position in RedBusScraper.scrape
    scrExc,         \* exception in flight in scrape
    excOrigin,      \* the call that raised it
    launched,       \* webdriver.Chrome(...) has started a browser session
    driver,         \* scrape's local driver: "none" | "live" | "quit"
    quitCalls,      \* calls of driver.quit()
    offset,         \* the day loop's offset
    visitedDays,    \* offsets whose search URL was opened with driver.get
    buses,          \* bus_id of the day's parsed listing cards
    busIdx,         \* position in the loop over buses
    payload,        \* scrape's payload list
    written,        \* contents of the raw payload files written
    collected,      \* the records appended to payload by the day loop (history)
    wdRaisedAt,     \* day on which a WebDriverException was first raised in the day loop (history)
    \* ---- ETL pipeline ----
    rawDir,         \* the *.json files of the input directory, in name order
    min_rating,     \* --min-rating, in tenths
    inferFormat,    \* pandas parses a date column with the format of its first value
    etlPc,          \* position in process_reviews.main
    df_raw,         \* load_raw_files(raw_dir)
    cleaned,        \* clean_dataframe(df_raw, min_rating)
    enriched,       \* apply_sentiment(cleaned)
    bus_metrics,    \* aggregate_bus_metrics(enriched)
    reviewsOut,     \* reviews.csv of the output directory
    busesOut,       \* buses.csv of the output directory
    recleaned,      \* clean_dataframe applied to cleaned
    \* ---- dashboard ----
    reviews_df,     \* the review table read from reviews.csv
    filters,        \* the sidebar's filter selection
    filtered,       \* apply_filters(reviews_df, filters), when it returned
    appPc,          \* "off" | "loaded" | "filtered" | "raised"
    inputBefore,    \* reviews_df when apply_filters was called (history)
    \* ---- sentiment analyzer ----
    sentText,       \* the text analyze is called with
    sentCompound,   \* the compound the scorer returned for it, in hundredths (history)
    scorerCalls,    \* calls of _vader().polarity_scores
    sentResult,     \* the SentimentResult returned
    sentPc,         \* "off" | "call" | "returned"
    \* ---- the scraper's scroll loop ----
    max_scroll_attempts, \* SCRAPER_SETTINGS.max_scroll_attempts
    pageHeight,     \* document.body.scrollHeight of the page
    last_height,    \* _scroll_to_bottom's last_height
    attempts,       \* _scroll_to_bottom's attempts
    scrolls,        \* window.scrollTo calls so far
    noGrowthRun,    \* scrolls since the height last exceeded last_height (history)
    scrollPc        \* "off" | "start" | "loop" | "returned" | "raised"

loaderVars == <<dbBuses, dbReviews, session, txBuses, txReviews, pendingBuses,
                pendingReviews, args, loadPc, loadExc, preBuses, preReviews, runs>>

scraperVars == <<days, sample, scrPc, scrExc, excOrigin, launched, driver, quitCalls,
                 offset, visitedDays, buses, busIdx, payload, written, collected,
                 wdRaisedAt>>

etlVars == <<rawDir, min_rating, inferFormat, etlPc, df_raw, cleaned, enriched,
             bus_metrics, reviewsOut, busesOut, recleaned>>

dashVars == <<reviews_df, filters, filtered, appPc, inputBefore>>

sentVars == <<sentText, sentCompound, scorerCalls, sentResult, sentPc>>

scrollVars == <<max_scroll_attempts, pageHeight, last_height, attempts, scrolls,
                noGrowthRun, scrollPc>>

vars == <<loaderVars, scraperVars, etlVars, dashVars, sentVars, scrollVars>>

notLoader == <<scraperVars, etlVars, dashVars, sentVars, scrollVars>>

notScraper == <<loaderVars, etlVars, dashVars, sentVars, scrollVars>>

notEtl == <<loaderVars, scraperVars, dashVars, sentVars, scrollVars>>

notDash == <<loaderVars, scraperVars, etlVars, sentVars, scrollVars>>

notSent == <<loaderVars, scraperVars, etlVars, dashVars, scrollVars>>

notScroll == <<loaderVars, scraperVars, etlVars, dashVars, sentVars>>

(***************************************************************************)
(* Database loader: src/db/load.py, src/db/schema.py                       *)
(***************************************************************************)
BusIds == {"B1", "B2"}

\* rating_count cells of buses.csv, in tenths (pandas reads 2 as 2.0 beside a NaN)
CountCells == {NaN, <<20>>}

BusCsvRows == [bus_id : BusIds, rating_count : CountCells]

\* review_date cells of reviews.csv: blank (NaN), a YYYY-MM-DD string, another string
DateCells == {NULL, "2024-01-12", "12-01-2024"}

\* Review.bus_id is a foreign key SQLite does not enforce: one id is enough
ReviewCsvRows == [bus_id : {"B1"}, review_date : DateCells]

\* a curated file: absent from the directory, or its data rows
CsvFiles(Rows, n) ==
    {[exists |-> FALSE, rows |-> << >>]} \cup
    {[exists |-> TRUE, rows |-> r] : r \in SeqsUpTo(Rows, n)}

\* datetime.strptime(value, "%Y-%m-%d"): the calendar date, or no match
StrptimeYmd(value) ==
    CASE value = "2024-01-12" -> <<2024, 1, 12>>
      [] value = "2024-01-13" -> <<2024, 1, 13>>
      [] OTHER -> << >>

\* load_reviews.parse_date raises ValueError
parse_date_raises(value) ==
    /\ value # NULL
    /\ value # ""
    /\ StrptimeYmd(value) = << >>

\* load_reviews.parse_date, when it returns
parse_date(value) ==
    IF value = NULL \/ value = "" THEN << >> ELSE StrptimeYmd(value)

\* Bus(...) of one buses.csv row
BusOf(row) ==
    [bus_id |-> row.bus_id,
     rating_count |-> IF row.rating_count # NaN
                      THEN <<row.rating_count[1] \div 10>> ELSE NaN]

\* Review(...) of one reviews.csv row; review_id is assigned by the flush
ReviewOf(row) ==
    [bus_id |-> row.bus_id, review_date |-> parse_date(row.review_date)]

\* a table buses without a primary key: no INSERT conflicts
PrimaryKeyAbsent(table, pending) == FALSE

\* the INSERTs of a flush hit the primary key of buses
PrimaryKeyConflict(table, pending) ==
    \/ \E i \in 1..Len(pending) : \E r \in table : r.bus_id = pending[i].bus_id
    \/ \E i, j \in 1..Len(pending) : i # j /\ pending[i].bus_id = pending[j].bus_id

\* the rowid SQLite gives the k-th Review inserted into table
NextReviewId(table, k) ==
    (IF table = {} THEN 0 ELSE SetMax({r.review_id : r \in table})) + k

InsertBuses(table, pending) == table \cup Range(pending)

InsertReviews(table, pending) ==
    table \cup {[review_id |-> NextReviewId(table, k),
                 bus_id |-> pending[k].bus_id,
                 review_date |-> pending[k].review_date] : k \in 1..Len(pending)}

\* Session.rollback / the rollback Session.close does: the transaction's
\* work and the pending objects are discarded
Discard ==
    /\ txBuses' = dbBuses
    /\ txReviews' = dbReviews
    /\ pendingBuses' = << >>
    /\ pendingReviews' = << >>

LoaderInit ==
    /\ dbBuses = {}
    /\ dbReviews = {}
    /\ session = "none"
    /\ txBuses = {}
    /\ txReviews = {}
    /\ pendingBuses = << >>
    /\ pendingReviews = << >>
    /\ args = [replace |-> FALSE,
               buses_csv |-> [exists |-> FALSE, rows |-> << >>],
               reviews_csv |-> [exists |-> FALSE, rows |-> << >>]]
    /\ loadPc = "idle"
    /\ loadExc = "none"
    /\ preBuses = {}
    /\ preReviews = {}
    /\ runs = 0

\* parse_args: a new invocation of the loader against the store as it is
parse_args ==
    /\ loadPc = "idle"
    /\ runs < MaxRuns
    /\ \E replace \in BOOLEAN :
       \E b \in CsvFiles(BusCsvRows, MaxBusRows) :
       \E r \in CsvFiles(ReviewCsvRows, MaxReviewRows) :
          args' = [replace |-> replace, buses_csv |-> b, reviews_csv |-> r]
    /\ runs' = runs + 1
    /\ session' = "none"
    /\ loadExc' = "none"
    /\ preBuses' = dbBuses
    /\ preReviews' = dbReviews
    /\ loadPc' = "create_session"
    /\ UNCHANGED <<dbBuses, dbReviews, txBuses, txReviews, pendingBuses, pendingReviews>>
    /\ UNCHANGED notLoader

\* create_session: create_all, then a new Session; a database error here
\* leaves main before any session exists
create_session ==
    /\ loadPc = "create_session"
    /\ \/ /\ session' = "open"
          /\ txBuses' = dbBuses
          /\ txReviews' = dbReviews
          /\ loadPc' = "read_buses"
          /\ UNCHANGED loadExc
       \/ /\ loadExc' = "SQLAlchemyError"
          /\ loadPc' = "exit"
          /\ UNCHANGED <<session, txBuses, txReviews>>
    /\ UNCHANGED <<dbBuses, dbReviews, pendingBuses, pendingReviews, args,
                   preBuses, preReviews, runs>>
    /\ UNCHANGED notLoader

\* load_dataframe, called for buses.csv and then for reviews.csv, before the
\* try statement: FileNotFoundError leaves main at once
load_dataframe(which) ==
    /\ loadPc = (IF which = "buses" THEN "read_buses" ELSE "read_reviews")
    /\ LET file == IF which = "buses" THEN args.buses_csv ELSE args.reviews_csv IN
       IF file.exists
       THEN /\ loadPc' = (IF which = "buses" THEN "read_reviews" ELSE "load_buses")
            /\ UNCHANGED loadExc
       ELSE /\ loadExc' = "FileNotFoundError"
            /\ loadPc' = "exit"
    /\ UNCHANGED <<dbBuses, dbReviews, session, txBuses, txReviews, pendingBuses,
                   pendingReviews, args, preBuses, preReviews, runs>>
    /\ UNCHANGED notLoader

\* load_buses with its DELETE committed at once instead of run in the
\* session's transaction
load_buses_autocommit ==
    /\ loadPc = "load_buses"
    /\ dbBuses' = (IF args.replace THEN {} ELSE dbBuses)
    /\ txBuses' = (IF args.replace THEN {} ELSE txBuses)
    /\ pendingBuses' = [i \in 1..Len(args.buses_csv.rows) |->
                           BusOf(args.buses_csv.rows[i])]
    /\ loadPc' = "load_reviews"
    /\ UNCHANGED <<dbReviews, session, txReviews, pendingReviews, args, loadExc,
                   preBuses, preReviews, runs>>
    /\ UNCHANGED notLoader

\* load_buses: the DELETE of --replace runs in the session's transaction and
\* may fail in the database; the Bus objects are added, not flushed
load_buses ==
    /\ loadPc = "load_buses"
    /\ \/ /\ txBuses' = (IF args.replace THEN {} ELSE txBuses)
          /\ pendingBuses' = [i \in 1..Len(args.buses_csv.rows) |->
                                 BusOf(args.buses_csv.rows[i])]
          /\ loadPc' = "load_reviews"
          /\ UNCHANGED loadExc
       \/ /\ args.replace
          /\ loadExc' = "SQLAlchemyError"
          /\ loadPc' = "except"
          /\ UNCHANGED <<txBuses, pendingBuses>>
    /\ UNCHANGED <<dbBuses, dbReviews, session, txReviews, pendingReviews, args,
                   preBuses, preReviews, runs>>
    /\ UNCHANGED notLoader

\* load_reviews without the DELETE of --replace
load_reviews_no_delete ==
    /\ loadPc = "load_reviews"
    /\ LET rows == args.reviews_csv.rows IN
       \/ /\ \E i \in 1..Len(rows) : parse_date_raises(rows[i].review_date)
          /\ loadExc' = "ValueError"
          /\ loadPc' = "finally"
          /\ UNCHANGED pendingReviews
       \/ /\ \A i \in 1..Len(rows) : ~parse_date_raises(rows[i].review_date)
          /\ pendingReviews' = [i \in 1..Len(rows) |-> ReviewOf(rows[i])]
          /\ loadPc' = "commit"
          /\ UNCHANGED loadExc
    /\ UNCHANGED <<dbBuses, dbReviews, session, txBuses, txReviews, pendingBuses, args,
                   preBuses, preReviews, runs>>
    /\ UNCHANGED notLoader

\* load_reviews: DELETE under --replace, then parse_date of every row
\* (ValueError on a date that is not YYYY-MM-DD), then add_all
load_reviews ==
    /\ loadPc = "load_reviews"
    /\ LET rows == args.reviews_csv.rows IN
       \/ /\ args.replace
          /\ loadExc' = "SQLAlchemyError"
          /\ loadPc' = "except"
          /\ UNCHANGED <<txReviews, pendingReviews>>
       \/ /\ \E i \in 1..Len(rows) : parse_date_raises(rows[i].review_date)
          /\ txReviews' = (IF args.replace THEN {} ELSE txReviews)
          /\ loadExc' = "ValueError"
          /\ loadPc' = "finally"
          /\ UNCHANGED pendingReviews
       \/ /\ \A i \in 1..Len(rows) : ~parse_date_raises(rows[i].review_date)
          /\ txReviews' = (IF args.replace THEN {} ELSE txReviews)
          /\ pendingReviews' = [i \in 1..Len(rows) |-> ReviewOf(rows[i])]
          /\ loadPc' = "commit"
          /\ UNCHANGED loadExc
    /\ UNCHANGED <<dbBuses, dbReviews, session, txBuses, pendingBuses, args,
                   preBuses, preReviews, runs>>
    /\ UNCHANGED notLoader

\* session.commit(): flush the pending objects (buses, then reviews) and
\* commit the transaction; IntegrityError on a primary-key conflict, or
\* any other database error
commit ==
    /\ loadPc = "commit"
    /\ \/ /\ ~PrimaryKeyConflict(txBuses, pendingBuses)
          /\ dbBuses' = InsertBuses(txBuses, pendingBuses)
          /\ dbReviews' = InsertReviews(txReviews, pendingReviews)
          /\ txBuses' = dbBuses'
          /\ txReviews' = dbReviews'
          /\ pendingBuses' = << >>
          /\ pendingReviews' = << >>
          /\ loadExc' = "committed"
          /\ loadPc' = "finally"
       \/ /\ loadExc' = "SQLAlchemyError"
          /\ loadPc' = "except"
          /\ UNCHANGED <<dbBuses, dbReviews, txBuses, txReviews, pendingBuses,
                         pendingReviews>>
    /\ UNCHANGED <<session, args, preBuses, preReviews, runs>>
    /\ UNCHANGED notLoader

\* except SQLAlchemyError: session.rollback(); raise
except_SQLAlchemyError ==
    /\ loadPc = "except"
    /\ Discard
    /\ loadPc' = "finally"
    /\ UNCHANGED <<dbBuses, dbReviews, session, args, loadExc, preBuses,
                   preReviews, runs>>
    /\ UNCHANGED notLoader

\* finally: session.close(), which rolls back a transaction left open
finally_close ==
    /\ loadPc = "finally"
    /\ Discard
    /\ session' = "closed"
    /\ loadPc' = "exit"
    /\ UNCHANGED <<dbBuses, dbReviews, args, loadExc, preBuses, preReviews, runs>>
    /\ UNCHANGED notLoader

\* main has returned or raised: the process ends and only the store remains
process_exit ==
    /\ loadPc = "exit"
    /\ loadPc' = "idle"
    /\ session' = "none"
    /\ loadExc' = "none"
    /\ args' = [replace |-> FALSE,
                buses_csv |-> [exists |-> FALSE, rows |-> << >>],
                reviews_csv |-> [exists |-> FALSE, rows |-> << >>]]
    /\ txBuses' = {}
    /\ txReviews' = {}
    /\ pendingBuses' = << >>
    /\ pendingReviews' = << >>
    /\ preBuses' = dbBuses
    /\ preReviews' = dbReviews
    /\ UNCHANGED <<dbBuses, dbReviews, runs>>
    /\ UNCHANGED notLoader

LoaderNext ==
    \/ parse_args
    \/ create_session
    \/ load_dataframe("buses")
    \/ load_dataframe("reviews")
    \/ load_buses
    \/ load_reviews
    \/ commit
    \/ except_SQLAlchemyError
    \/ finally_close
    \/ process_exit

(***************************************************************************)
(* Browser scraper: src/scraper/redbus_scraper.py                          *)
(***************************************************************************)
\* bus_id of a parsed listing card: None, empty, or an identifier
CardIds == {NULL, "", "B1"}

NoDay == -1

\* the flat raw record of the k-th review of a bus on a day
RawRecord(bus_id, day, k) ==
    [bus_id |-> bus_id, journey_date |-> day, review |-> k, src |-> "live"]

SampleRecord == [bus_id |-> "S1", journey_date |-> NoDay, review |-> 1, src |-> "sample"]

\* sample_reviews.json: absent, an empty list, or one record
SampleFiles ==
    {[exists |-> FALSE, rows |-> << >>],
     [exists |-> TRUE, rows |-> << >>],
     [exists |-> TRUE, rows |-> <<SampleRecord>>]}

\* selenium's TimeoutException is a subclass of WebDriverException
IsWebDriverException(e) == e \in {"WebDriverException", "TimeoutException"}

\* what a call to the driver raises when it fails
DriverErrors == {"WebDriverException", "Other"}

\* an exception leaves the try block of scrape: to the except clause if it
\* is a WebDriverException, else straight to the finally clause
Raise(e, origin) ==
    /\ scrExc' = e
    /\ excOrigin' = origin
    /\ scrPc' = (IF IsWebDriverException(e) THEN "except" ELSE "finally")

\* a session-level WebDriverException was raised inside the day loop
NoteRaised(e) ==
    wdRaisedAt' = (IF e = "WebDriverException" /\ wdRaisedAt = NoDay
                   THEN offset ELSE wdRaisedAt)

ScraperInit ==
    /\ days \in 0..MaxDays
    /\ sample \in SampleFiles
    /\ scrPc = "driver"
    /\ scrExc = "none"
    /\ excOrigin = "none"
    /\ launched = FALSE
    /\ driver = "none"
    /\ quitCalls = 0
    /\ offset = 0
    /\ visitedDays = {}
    /\ buses = << >>
    /\ busIdx = 0
    /\ payload = << >>
    /\ written = << >>
    /\ collected = << >>
    /\ wdRaisedAt = NoDay

\* driver = self._driver(): webdriver.Chrome(...) and then
\* driver.implicitly_wait(5); either may raise, and only a returned driver
\* is bound to scrape's local variable
scrape_driver ==
    /\ scrPc = "driver"
    /\ \/ /\ launched' = TRUE
          /\ driver' = "live"
          /\ scrPc' = "get"
          /\ UNCHANGED <<scrExc, excOrigin>>
       \/ \E e \in DriverErrors :
            /\ Raise(e, "Chrome")
            /\ UNCHANGED <<launched, driver>>
       \/ \E e \in DriverErrors :
            /\ launched' = TRUE
            /\ Raise(e, "implicitly_wait")
            /\ UNCHANGED driver
    /\ UNCHANGED <<days, sample, quitCalls, offset, visitedDays, buses, busIdx,
                   payload, written, wdRaisedAt>>
    /\ UNCHANGED collected
    /\ UNCHANGED notScraper

\* for offset in range(self.days): driver.get(url)
scrape_get ==
    /\ scrPc = "get"
    /\ IF offset < days
       THEN /\ visitedDays' = visitedDays \cup {offset}
            /\ \/ /\ scrPc' = "wait"
                  /\ UNCHANGED <<scrExc, excOrigin, wdRaisedAt>>
               \/ \E e \in DriverErrors :
                    /\ Raise(e, "get")
                    /\ NoteRaised(e)
       ELSE /\ scrPc' = "finally"
            /\ UNCHANGED <<visitedDays, scrExc, excOrigin, wdRaisedAt>>
    /\ UNCHANGED <<days, sample, launched, driver, quitCalls, offset, buses, busIdx,
                   payload, written>>
    /\ UNCHANGED collected
    /\ UNCHANGED notScraper

\* WebDriverWait(driver, 20).until(presence of .bus-item): TimeoutException
\* skips the day (continue); anything else leaves the loop
scrape_wait ==
    /\ scrPc = "wait"
    /\ \/ /\ scrPc' = "scroll"
          /\ UNCHANGED <<scrExc, excOrigin, offset, wdRaisedAt>>
       \/ /\ offset' = offset + 1
          /\ scrPc' = "get"
          /\ UNCHANGED <<scrExc, excOrigin, wdRaisedAt>>
       \/ \E e \in DriverErrors :
            /\ Raise(e, "wait")
            /\ NoteRaised(e)
            /\ UNCHANGED offset
    /\ UNCHANGED <<days, sample, launched, driver, quitCalls, visitedDays, buses,
                   busIdx, payload, written>>
    /\ UNCHANGED collected
    /\ UNCHANGED notScraper

\* self._scroll_to_bottom(driver)
scroll_to_bottom ==
    /\ scrPc = "scroll"
    /\ \/ /\ scrPc' = "cards"
          /\ UNCHANGED <<scrExc, excOrigin, wdRaisedAt>>
       \/ \E e \in DriverErrors :
            /\ Raise(e, "scroll")
            /\ NoteRaised(e)
    /\ UNCHANGED <<days, sample, launched, driver, quitCalls, offset, visitedDays,
                   buses, busIdx, payload, written>>
    /\ UNCHANGED collected
    /\ UNCHANGED notScraper

\* buses = self._collect_bus_cards(driver): the cards of driver.page_source
collect_bus_cards ==
    /\ scrPc = "cards"
    /\ \/ /\ buses' \in SeqsUpTo(CardIds, MaxCards)
          /\ busIdx' = 1
          /\ scrPc' = "buses"
          /\ UNCHANGED <<scrExc, excOrigin, wdRaisedAt>>
       \/ \E e \in DriverErrors :
            /\ Raise(e, "page_source")
            /\ NoteRaised(e)
            /\ UNCHANGED <<buses, busIdx>>
    /\ UNCHANGED <<days, sample, launched, driver, quitCalls, offset, visitedDays,
                   payload, written>>
    /\ UNCHANGED collected
    /\ UNCHANGED notScraper

\* one pass of "for bus in buses": skip a card without bus_id, else
\* self._collect_reviews(driver, bus_id) and the payload.append of each review.
\* In _collect_reviews every exception of the opening sequence (find_element,
\* scrollIntoView, click, the wait for .review-modal) is caught and gives [];
\* driver.page_source and the click on .close are outside its try statement.
collect_reviews ==
    /\ scrPc = "buses"
    /\ busIdx <= Len(buses)
    /\ LET bus_id == IF buses[busIdx] = NULL THEN "" ELSE buses[busIdx] IN
       IF bus_id = ""
       THEN /\ busIdx' = busIdx + 1
            /\ UNCHANGED <<scrPc, scrExc, excOrigin, payload, collected, wdRaisedAt>>
       ELSE \/ \E e \in DriverErrors \cup {"TimeoutException"} :
                 /\ NoteRaised(e)
                 /\ busIdx' = busIdx + 1
                 /\ UNCHANGED <<scrPc, scrExc, excOrigin, payload, collected>>
            \/ \E e \in DriverErrors :
                 /\ Raise(e, "collect_page_source")
                 /\ NoteRaised(e)
                 /\ UNCHANGED <<busIdx, payload, collected>>
            \/ \E e \in DriverErrors :
                 /\ Raise(e, "collect_close")
                 /\ NoteRaised(e)
                 /\ UNCHANGED <<busIdx, payload, collected>>
            \/ \E n \in 0..MaxPanelReviews :
                 /\ payload' = payload \o [k \in 1..n |-> RawRecord(bus_id, offset, k)]
                 /\ collected' = collected \o [k \in 1..n |-> RawRecord(bus_id, offset, k)]
                 /\ busIdx' = busIdx + 1
                 /\ UNCHANGED <<scrPc, scrExc, excOrigin, wdRaisedAt>>
    /\ UNCHANGED <<days, sample, launched, driver, quitCalls, offset, visitedDays,
                   buses, written>>
    /\ UNCHANGED notScraper

\* the end of a day's pass: time.sleep(request_delay), next offset
scrape_next_day ==
    /\ scrPc = "buses"
    /\ busIdx > Len(buses)
    /\ offset' = offset + 1
    /\ buses' = << >>
    /\ busIdx' = 0
    /\ scrPc' = "get"
    /\ UNCHANGED <<days, sample, scrExc, excOrigin, launched, driver, quitCalls,
                   visitedDays, payload, written, wdRaisedAt>>
    /\ UNCHANGED collected
    /\ UNCHANGED notScraper

\* except WebDriverException: log and re-raise
scrape_except ==
    /\ scrPc = "except"
    /\ scrPc' = "finally"
    /\ UNCHANGED <<days, sample, scrExc, excOrigin, launched, driver, quitCalls, offset,
                   visitedDays, buses, busIdx, payload, written, wdRaisedAt>>
    /\ UNCHANGED collected
    /\ UNCHANGED notScraper

\* a finally clause that quits the driver only when no exception is in flight
scrape_finally_quit_on_success ==
    /\ scrPc = "finally"
    /\ IF driver # "none" /\ scrExc = "none"
       THEN /\ driver' = "quit"
            /\ quitCalls' = quitCalls + 1
       ELSE UNCHANGED <<driver, quitCalls>>
    /\ scrPc' = (IF scrExc = "none" THEN "fallback" ELSE "raised")
    /\ UNCHANGED <<days, sample, scrExc, excOrigin, launched, offset, visitedDays,
                   buses, busIdx, payload, written, wdRaisedAt>>
    /\ UNCHANGED collected
    /\ UNCHANGED notScraper

\* finally: if driver is not None: driver.quit(); then the exception in
\* flight, if any, leaves scrape
scrape_finally ==
    /\ scrPc = "finally"
    /\ IF driver # "none"
       THEN /\ driver' = "quit"
            /\ quitCalls' = quitCalls + 1
       ELSE UNCHANGED <<driver, quitCalls>>
    /\ scrPc' = (IF scrExc = "none" THEN "fallback" ELSE "raised")
    /\ UNCHANGED <<days, sample, scrExc, excOrigin, launched, offset, visitedDays,
                   buses, busIdx, payload, written, wdRaisedAt>>
    /\ UNCHANGED collected
    /\ UNCHANGED notScraper

\* a fallback that adds the sample payload whenever the file exists
scrape_fallback_always ==
    /\ scrPc = "fallback"
    /\ payload' = (IF sample.exists THEN payload \o sample.rows ELSE payload)
    /\ scrPc' = "write"
    /\ UNCHANGED <<scrExc, excOrigin>>
    /\ UNCHANGED <<days, sample, launched, driver, quitCalls, offset, visitedDays,
                   buses, busIdx, written, wdRaisedAt>>
    /\ UNCHANGED collected
    /\ UNCHANGED notScraper

\* if not payload: the sample payload if sample_reviews.json exists
\* (read_json may raise on it), else the empty payload
scrape_fallback ==
    /\ scrPc = "fallback"
    /\ IF payload = << >> /\ sample.exists
       THEN \/ /\ payload' = sample.rows
               /\ scrPc' = "write"
               /\ UNCHANGED <<scrExc, excOrigin>>
            \/ /\ scrExc' = "Other"
               /\ excOrigin' = "read_json"
               /\ scrPc' = "raised"
               /\ UNCHANGED payload
       ELSE /\ scrPc' = "write"
            /\ UNCHANGED <<payload, scrExc, excOrigin>>
    /\ UNCHANGED <<days, sample, launched, driver, quitCalls, offset, visitedDays,
                   buses, busIdx, written, wdRaisedAt>>
    /\ UNCHANGED collected
    /\ UNCHANGED notScraper

\* mkdir, open and json.dump of the payload; return output_file
scrape_write ==
    /\ scrPc = "write"
    /\ \/ /\ written' = Append(written, payload)
          /\ scrPc' = "returned"
          /\ UNCHANGED <<scrExc, excOrigin>>
       \/ /\ scrExc' = "Other"
          /\ excOrigin' = "open"
          /\ scrPc' = "raised"
          /\ UNCHANGED written
    /\ UNCHANGED <<days, sample, launched, driver, quitCalls, offset, visitedDays,
                   buses, busIdx, payload, wdRaisedAt>>
    /\ UNCHANGED collected
    /\ UNCHANGED notScraper

ScraperNext ==
    \/ scrape_driver
    \/ scrape_get
    \/ scrape_wait
    \/ scroll_to_bottom
    \/ collect_bus_cards
    \/ collect_reviews
    \/ scrape_next_day
    \/ scrape_except
    \/ scrape_finally
    \/ scrape_fallback
    \/ scrape_write

\* the scraper when another component is the one running
ScraperIdle ==
    /\ days = 0
    /\ sample = [exists |-> FALSE, rows |-> << >>]
    /\ scrPc = "off"
    /\ scrExc = "none"
    /\ excOrigin = "none"
    /\ launched = FALSE
    /\ driver = "none"
    /\ quitCalls = 0
    /\ offset = 0
    /\ visitedDays = {}
    /\ buses = << >>
    /\ busIdx = 0
    /\ payload = << >>
    /\ written = << >>
    /\ collected = << >>
    /\ wdRaisedAt = NoDay

\* the loader when another component is the one running: no invocation
LoaderOff ==
    /\ dbBuses = {}
    /\ dbReviews = {}
    /\ session = "none"
    /\ txBuses = {}
    /\ txReviews = {}
    /\ pendingBuses = << >>
    /\ pendingReviews = << >>
    /\ args = [replace |-> FALSE,
               buses_csv |-> [exists |-> FALSE, rows |-> << >>],
               reviews_csv |-> [exists |-> FALSE, rows |-> << >>]]
    /\ loadPc = "off"
    /\ loadExc = "none"
    /\ preBuses = {}
    /\ preReviews = {}
    /\ runs = 0

(***************************************************************************)
(* The scroll loop of the scraper: RedBusScraper._scroll_to_bottom, step   *)
(* by step, on a page whose height the site changes as it likes.           *)
(***************************************************************************)
Heights == 1..MaxHeight

ScrollInit ==
    /\ max_scroll_attempts \in 0..MaxScrollAttempts
    /\ pageHeight \in Heights
    /\ last_height = 0
    /\ attempts = 0
    /\ scrolls = 0
    /\ noGrowthRun = 0
    /\ scrollPc = "start"

\* last_height = driver.execute_script("return document.body.scrollHeight");
\* attempts = 0
scroll_start ==
    /\ scrollPc = "start"
    /\ \/ /\ last_height' = pageHeight
          /\ scrollPc' = "loop"
       \/ /\ scrollPc' = "raised"
          /\ UNCHANGED last_height
    /\ UNCHANGED <<max_scroll_attempts, pageHeight, attempts, scrolls, noGrowthRun>>
    /\ UNCHANGED notScroll

\* one pass of the while loop: scroll, pause, read the height the page has
\* now, compare it with last_height
scroll_step ==
    /\ scrollPc = "loop"
    /\ attempts < max_scroll_attempts
    /\ scrolls < MaxScrolls
    /\ \/ \E new_height \in Heights :
            /\ pageHeight' = new_height
            /\ scrolls' = scrolls + 1
            /\ noGrowthRun' = (IF new_height > last_height THEN 0 ELSE noGrowthRun + 1)
            /\ IF new_height = last_height
               THEN /\ attempts' = attempts + 1
                    /\ UNCHANGED last_height
               ELSE /\ attempts' = 0
                    /\ last_height' = new_height
            /\ UNCHANGED scrollPc
       \/ /\ scrollPc' = "raised"
          /\ UNCHANGED <<pageHeight, scrolls, noGrowthRun, attempts, last_height>>
    /\ UNCHANGED max_scroll_attempts
    /\ UNCHANGED notScroll

\* the while condition is false: _scroll_to_bottom returns
scroll_return ==
    /\ scrollPc = "loop"
    /\ ~(attempts < max_scroll_attempts)
    /\ scrollPc' = "returned"
    /\ UNCHANGED <<max_scroll_attempts, pageHeight, last_height, attempts, scrolls,
                   noGrowthRun>>
    /\ UNCHANGED notScroll

ScrollNext ==
    \/ scroll_start
    \/ scroll_step
    \/ scroll_return

\* the scroll loop when another component is the one running
ScrollOff ==
    /\ max_scroll_attempts = 0
    /\ pageHeight = 1
    /\ last_height = 0
    /\ attempts = 0
    /\ scrolls = 0
    /\ noGrowthRun = 0
    /\ scrollPc = "off"

(***************************************************************************)
(* Dashboard: app.py                                                       *)
(***************************************************************************)
\* str.lower of one character
LowerChar(c) == CASE c = "A" -> "a" [] c = "B" -> "b" [] OTHER -> c

\* str.lower
Lower(t) == [i \in 1..Len(t) |-> LowerChar(t[i])]

\* re.search(pat, text) for a pattern of literal characters and ".", which
\* matches any character: str.contains takes its argument as a regular
\* expression (regex=True is the default)
ReSearch(pat, text) ==
    \E off \in 0..(Len(text) - Len(pat)) :
        \A i \in 1..Len(pat) : pat[i] = "." \/ pat[i] = text[off + i]

\* Series.isin(values)
IsIn(cell, values) == cell # NULL /\ cell \in values

\* Series.between(low, high): inclusive on both sides, False for NaN
Between(cell, low, high) == cell # NaN /\ low <= cell[1] /\ cell[1] <= high

\* .str on a column: a non-empty column without any string is float64 and
\* has no .str accessor
StrAccessorRaises(rows) ==
    rows # << >> /\ \A i \in 1..Len(rows) : rows[i].route = NULL

\* apply_filters raises
apply_filters_raises(df, f) ==
    f.route_keyword # << >> /\ StrAccessorRaises(df)

\* apply_filters, when it returns
apply_filters(df, f) ==
    LET d1 == IF f.operator # {}
              THEN SelectSeq(df, LAMBDA r : IsIn(r.operator_name, f.operator))
              ELSE df
        d2 == IF f.bus_type # {}
              THEN SelectSeq(d1, LAMBDA r : IsIn(r.bus_type, f.bus_type))
              ELSE d1
        d3 == IF f.sentiment # {}
              THEN SelectSeq(d2, LAMBDA r : IsIn(r.sentiment, f.sentiment))
              ELSE d2
        d4 == SelectSeq(d3, LAMBDA r : Between(r.rating, f.rating_range[1],
                                                f.rating_range[2]))
    IN IF f.route_keyword # << >>
       THEN SelectSeq(d4, LAMBDA r : /\ r.route # NULL
                                     /\ ReSearch(Lower(f.route_keyword), Lower(r.route)))
       ELSE d4

\* rows of reviews.csv as the dashboard reads them
TableRows ==
    [operator_name : {"Acme", "Zed"},
     bus_type : {"AC", "Seater"},
     sentiment : {"positive", "neutral"},
     rating : {NaN, <<30>>, <<50>>},
     route : {NULL, <<"A", "b">>, <<"a", ".", "b">>}]

\* selections of the sidebar: multiselects, the rating slider, the keyword
FilterSelections ==
    [operator : {{}, {"Acme"}},
     bus_type : {{}, {"AC"}},
     sentiment : {{}, {"positive"}},
     rating_range : {<<30, 50>>, <<40, 50>>},
     route_keyword : {<< >>, <<"a", "B">>, <<".">>, <<"b", ".">>}]

\* reviews_df, buses_df = load_curated_data(...); filters = sidebar_filters(...)
DashInit ==
    /\ \E t \in SeqsUpTo(TableRows, MaxTableRows) :
          reviews_df = [i \in 1..Len(t) |-> [index |-> i - 1] @@ t[i]]
    /\ filters \in FilterSelections
    /\ filtered = << >>
    /\ appPc = "loaded"
    /\ inputBefore = reviews_df

\* filtered_reviews = apply_filters(reviews_df, filters): works on a copy
filter_reviews ==
    /\ appPc = "loaded"
    /\ IF apply_filters_raises(reviews_df, filters)
       THEN /\ appPc' = "raised"
            /\ UNCHANGED filtered
       ELSE /\ filtered' = apply_filters(reviews_df, filters)
            /\ appPc' = "filtered"
    /\ UNCHANGED <<reviews_df, filters, inputBefore>>
    /\ UNCHANGED notDash

DashNext == filter_reviews

\* the dashboard when another component is the one running
DashOff ==
    /\ reviews_df = << >>
    /\ filters = [operator |-> {}, bus_type |-> {}, sentiment |-> {},
                  rating_range |-> <<0, 50>>, route_keyword |-> << >>]
    /\ filtered = << >>
    /\ appPc = "off"
    /\ inputBefore = << >>

(***************************************************************************)
(* ETL pipeline: src/etl/process_reviews.py, src/sentiment/analyzer.py     *)
(*                                                                         *)
(* A DataFrame is [columns, rows]: rows is the sequence of its records in  *)
(* row order, each carrying its index label.  A text is a sequence of      *)
(* characters; an absent text is <<NULL>>.  Ratings are in tenths, a       *)
(* rating cell is [kind, v] with kind "nan" (absent), "num" (a number),    *)
(* "text" (a numeric string) or "junk" (any other string).  operator_name  *)
(* stands for the columns aggregated with "first".                         *)
(***************************************************************************)
NoText == <<NULL>>

Whitespace == {" ", "\t"}

RECURSIVE DropLeadingSpace(_)
DropLeadingSpace(t) ==
    IF t # << >> /\ Head(t) \in Whitespace THEN DropLeadingSpace(Tail(t)) ELSE t

\* .str.replace(r"\s+", " ", regex=True)
RECURSIVE CollapseSpace(_)
CollapseSpace(t) ==
    IF t = << >> THEN << >>
    ELSE IF Head(t) \in Whitespace
         THEN <<" ">> \o CollapseSpace(DropLeadingSpace(t))
         ELSE <<Head(t)>> \o CollapseSpace(Tail(t))

\* .str.strip()
Strip(t) ==
    LET l == DropLeadingSpace(t) IN
    IF l # << >> /\ l[Len(l)] \in Whitespace
    THEN SubSeq(l, 1, Len(l) - 1)   \* after CollapseSpace at most one trails
    ELSE l

\* df["review_text"].fillna("").str.replace(...).str.strip()
NormalizeText(t) == Strip(CollapseSpace(IF t = NoText THEN << >> ELSE t))

\* .str.split().str.len(): the maximal runs of non-whitespace
WordCount(t) ==
    Cardinality({i \in 1..Len(t) :
                   /\ t[i] \notin Whitespace
                   /\ (i = 1 \/ t[i - 1] \in Whitespace)})

NanRating == [kind |-> "nan", v |-> 0]

\* pd.to_numeric(errors="coerce") of one rating cell
ToNumeric(r) ==
    IF r.kind \in {"num", "text"} THEN [kind |-> "num", v |-> r.v] ELSE NanRating

\* a comparison without fillna: NaN >= threshold is False for every threshold
FillnaNone(r) == IF r.kind = "num" THEN r.v ELSE -1000

\* .fillna(0) of a numeric rating
Fillna0(r) == IF r.kind = "num" THEN r.v ELSE 0

NaT == << >>

\* the calendar date a date string denotes for the parser (NaT if none)
ParseDateString(tok) ==
    CASE tok = "2024-01-12" -> <<2024, 1, 12>>
      [] tok = "12 Jan 2024" -> <<2024, 1, 12>>
      [] tok = "2024-01-13" -> <<2024, 1, 13>>
      [] tok = "2024-02-01" -> <<2024, 2, 1>>
      [] OTHER -> NaT

\* the strptime format pandas guesses for a date string ("none": no guess)
GuessFormat(tok) ==
    CASE tok \in {"2024-01-12", "2024-01-13", "2024-02-01"} -> "%Y-%m-%d"
      [] tok = "12 Jan 2024" -> "%d %b %Y"
      [] OTHER -> "none"

\* pd.to_datetime(column, errors="coerce"): with format inference the first
\* non-null value fixes the format and values of another format become NaT;
\* without it (or with no guessable format) each value is parsed on its own
ToDatetime(col, infer) ==
    LET present == {i \in 1..Len(col) : col[i] # NULL}
        fmt == IF infer /\ present # {}
               THEN GuessFormat(col[CHOOSE i \in present : \A j \in present : i <= j])
               ELSE "none"
    IN [i \in 1..Len(col) |->
          IF col[i] = NULL THEN NaT
          ELSE IF fmt = "none" \/ GuessFormat(col[i]) = fmt
               THEN ParseDateString(col[i])
               ELSE NaT]

\* .dt.strftime("%Y-%m-%d") of one value; NaT gives NaN
Strftime(d) ==
    CASE d = <<2024, 1, 12>> -> "2024-01-12"
      [] d = <<2024, 1, 13>> -> "2024-01-13"
      [] d = <<2024, 2, 1>> -> "2024-02-01"
      [] OTHER -> NULL

DedupKey(r) == <<r.bus_id, r.review_text, r.review_date>>

\* drop_duplicates with keep="last"
DropDuplicatesKeepLast(rows) ==
    SelectSeq([i \in 1..Len(rows) |->
                 [row |-> rows[i],
                  dup |-> \E j \in (i + 1)..Len(rows) :
                            <<rows[j].bus_id, rows[j].review_text, rows[j].review_date>>
                            = <<rows[i].bus_id, rows[i].review_text, rows[i].review_date>>]],
              LAMBDA e : ~e.dup)

\* df.drop_duplicates(subset=dedup_cols): keep="first"
DropDuplicates(rows) ==
    SelectSeq([i \in 1..Len(rows) |->
                 [row |-> rows[i],
                  dup |-> \E j \in 1..(i - 1) : DedupKey(rows[j]) = DedupKey(rows[i])]],
              LAMBDA e : ~e.dup)

Rows(entries) == [i \in 1..Len(entries) |-> entries[i].row]

\* clean_dataframe up to the normalized review_date: the text and rating
\* filters, and the normalization of text, rating and review date
FilterAndNormalize(rows, minRating, infer) ==
    LET t1 == [i \in 1..Len(rows) |->
                 [rows[i] EXCEPT !.review_text = NormalizeText(@)]]
        t2 == SelectSeq(t1, LAMBDA r : r.review_text # << >>)
        t3 == [i \in 1..Len(t2) |-> [t2[i] EXCEPT !.rating = ToNumeric(@)]]
        t4 == SelectSeq(t3, LAMBDA r : Fillna0(r.rating) >= minRating)
        rd == ToDatetime([i \in 1..Len(t4) |-> t4[i].review_date], infer)
    IN [i \in 1..Len(t4) |-> [t4[i] EXCEPT !.review_date = Strftime(rd[i])]]

\* the statements of clean_dataframe after df.copy(), on a non-empty frame
CleanRows(rows, minRating, infer) ==
    LET t6 == Rows(DropDuplicates(FilterAndNormalize(rows, minRating, infer)))
        jd == ToDatetime([i \in 1..Len(t6) |-> t6[i].journey_date], infer)
    IN [i \in 1..Len(t6) |->
          [review_length |-> Len(t6[i].review_text),
           review_word_count |-> WordCount(t6[i].review_text),
           journey_date |-> Strftime(jd[i])] @@ t6[i]]

clean_dataframe(df, minRating, infer) ==
    IF df.rows = << >> THEN df
    ELSE [columns |-> df.columns \cup {"review_length", "review_word_count"},
          rows |-> CleanRows(df.rows, minRating, infer)]

\* SentimentAnalyzer thresholds, in hundredths
POSITIVE_THRESHOLD == 5

NEGATIVE_THRESHOLD == -5

\* _vader().polarity_scores(text)["compound"], in hundredths: the lexicon
\* scorer, here over a lexicon of two words, "g" and "b"
VaderCompound(text) ==
    LET pos == \E i \in 1..Len(text) : text[i] = "g"
        neg == \E i \in 1..Len(text) : text[i] = "b"
    IN IF pos /\ ~neg THEN 44 ELSE IF neg /\ ~pos THEN -54 ELSE 0

\* `if not text`: the empty string and None
NotText(text) == text = << >> \/ text = NoText

\* an analyze whose comparisons with the thresholds are strict
analyze_strict(text, compound) ==
    IF NotText(text)
    THEN [label |-> "neutral", score |-> 0]
    ELSE [label |-> IF compound > POSITIVE_THRESHOLD THEN "positive"
                    ELSE IF compound < NEGATIVE_THRESHOLD THEN "negative"
                    ELSE "neutral",
          score |-> compound]

\* the body of SentimentAnalyzer.analyze, compound being what the scorer
\* returns for the text
analyze_scored(text, compound) ==
    IF NotText(text)
    THEN [label |-> "neutral", score |-> 0]
    ELSE [label |-> IF compound >= POSITIVE_THRESHOLD THEN "positive"
                    ELSE IF compound <= NEGATIVE_THRESHOLD THEN "negative"
                    ELSE "neutral",
          score |-> compound]

\* SentimentAnalyzer.analyze
analyze(text) == analyze_scored(text, VaderCompound(text))

\* the compound polarity of a text: any value of [-1, 1], in hundredths
Compounds == (0 - 100)..100

SentTexts == {<< >>, NoText, <<"a">>, <<"g", " ", "b">>}

\* a call analyze(text)
SentInit ==
    /\ sentText \in SentTexts
    /\ sentCompound = 0
    /\ scorerCalls = 0
    /\ sentResult = [label |-> "none", score |-> 0]
    /\ sentPc = "call"

\* analyze returns at once on `not text`; otherwise it asks the scorer,
\* whose compound for the text is c
analyze_call ==
    /\ sentPc = "call"
    /\ IF NotText(sentText)
       THEN /\ sentResult' = analyze_scored(sentText, 0)
            /\ UNCHANGED <<scorerCalls, sentCompound>>
       ELSE \E c \in Compounds :
              /\ scorerCalls' = scorerCalls + 1
              /\ sentCompound' = c
              /\ sentResult' = analyze_scored(sentText, c)
    /\ sentPc' = "returned"
    /\ UNCHANGED sentText
    /\ UNCHANGED notSent

SentNext == analyze_call

\* the analyzer when another component is the one running
SentOff ==
    /\ sentText = << >>
    /\ sentCompound = 0
    /\ scorerCalls = 0
    /\ sentResult = [label |-> "none", score |-> 0]
    /\ sentPc = "off"

apply_sentiment(df) ==
    IF df.rows = << >> THEN df
    ELSE [columns |-> df.columns \cup {"sentiment", "sentiment_score"},
          rows |-> [i \in 1..Len(df.rows) |->
                      [sentiment |-> analyze(df.rows[i].review_text).label,
                       sentiment_score |-> analyze(df.rows[i].review_text).score]
                      @@ df.rows[i]]]

RECURSIVE Gcd(_, _)
Gcd(a, b) == IF b = 0 THEN a ELSE Gcd(b, a % b)

\* the exact quotient p / q, q > 0, as a fraction in lowest terms
Ratio(p, q) == LET g == Gcd(p, q) IN <<p \div g, q \div g>>

RECURSIVE SumRatings(_)
SumRatings(rows) ==
    IF rows = << >> THEN 0 ELSE Head(rows).rating.v + SumRatings(Tail(rows))

\* groupby sorts its keys; this is the order of the bus ids used here
BusIdOrder == <<"B1", "B2">>

\* an .agg(...) whose rating_count is the size of the group
AggRowSize(rows, b) ==
    LET group == SelectSeq(rows, LAMBDA r : r.bus_id = b)
        rated == SelectSeq(group, LAMBDA r : r.rating.kind = "num")
    IN [bus_id |-> b,
        operator_name |-> group[1].operator_name,
        avg_rating |-> IF rated = << >> THEN NaN
                       ELSE Ratio(SumRatings(rated), Len(rated)),
        rating_count |-> Len(group),
        sentiment_positive |-> Ratio(0, 1),
        sentiment_negative |-> Ratio(0, 1)]

\* the .agg(...) row of one group
AggRow(rows, b) ==
    LET group == SelectSeq(rows, LAMBDA r : r.bus_id = b)
        rated == SelectSeq(group, LAMBDA r : r.rating.kind = "num")
        named == SelectSeq(group, LAMBDA r : r.operator_name # NULL)
        positive == SelectSeq(group, LAMBDA r : r.sentiment = "positive")
        negative == SelectSeq(group, LAMBDA r : r.sentiment = "negative")
    IN [bus_id |-> b,
        operator_name |-> IF named = << >> THEN NULL ELSE named[1].operator_name,
        avg_rating |-> IF rated = << >> THEN NaN
                       ELSE Ratio(SumRatings(rated), Len(rated)),
        rating_count |-> Len(rated),
        sentiment_positive |-> Ratio(Len(positive), Len(group)),
        sentiment_negative |-> Ratio(Len(negative), Len(group))]

BusColumns == {"bus_id", "operator_name", "avg_rating", "rating_count",
               "sentiment_positive", "sentiment_negative"}

\* df.groupby("bus_id").agg(...).reset_index(): rows without bus_id are in no group
aggregate_bus_metrics(df) ==
    IF df.rows = << >> THEN df
    ELSE LET keys == SelectSeq(BusIdOrder,
                               LAMBDA b : \E i \in 1..Len(df.rows) : df.rows[i].bus_id = b)
         IN [columns |-> BusColumns,
             rows |-> [k \in 1..Len(keys) |-> AggRow(df.rows, keys[k])]]

\* DataFrame.to_csv(path, index=False): the columns as header, the rows
\* without their index label
ToCsv(df) ==
    [exists |-> TRUE,
     header |-> df.columns,
     rows |-> [i \in 1..Len(df.rows) |->
                 [f \in DOMAIN df.rows[i] \ {"index"} |-> df.rows[i][f]]]]

RawColumns == {"bus_id", "operator_name", "rating", "review_text", "review_date",
               "journey_date"}

EmptyFrame == [columns |-> {}, rows |-> << >>]

NoFile == [exists |-> FALSE, header |-> {}, rows |-> << >>]

\* pd.concat(records, ignore_index=True) of the non-empty files, each
\* tagged with its source file; DataFrame() when there is none
ConcatFiles(files) ==
    LET nonEmpty == SelectSeq([k \in 1..Len(files) |-> [name |-> k, recs |-> files[k]]],
                              LAMBDA f : f.recs # << >>)
        RECURSIVE Flat(_)
        Flat(fs) ==
            IF fs = << >> THEN << >>
            ELSE [i \in 1..Len(Head(fs).recs) |->
                    [source_file |-> Head(fs).name] @@ Head(fs).recs[i]]
                 \o Flat(Tail(fs))
        all == Flat(nonEmpty)
    IN IF nonEmpty = << >> THEN EmptyFrame
       ELSE [columns |-> RawColumns \cup {"source_file"},
             rows |-> [i \in 1..Len(all) |-> [index |-> i - 1] @@ all[i]]]

\* an input directory: no JSON file, or one file of the given records
RawDirs(Records, n) == {<< >>} \cup {<<f>> : f \in SeqsUpTo(Records, n)}

EtlStart ==
    /\ inferFormat \in BOOLEAN
    /\ etlPc = "load"
    /\ df_raw = EmptyFrame
    /\ cleaned = EmptyFrame
    /\ enriched = EmptyFrame
    /\ bus_metrics = EmptyFrame
    /\ reviewsOut = NoFile
    /\ busesOut = NoFile
    /\ recleaned = EmptyFrame

\* df_raw = load_raw_files(raw_dir)
load_raw_files ==
    /\ etlPc = "load"
    /\ df_raw' = ConcatFiles(rawDir)
    /\ etlPc' = "clean"
    /\ UNCHANGED <<rawDir, min_rating, inferFormat, cleaned, enriched, bus_metrics,
                   reviewsOut, busesOut, recleaned>>
    /\ UNCHANGED notEtl

\* cleaned = clean_dataframe(df_raw, min_rating=args.min_rating)
etl_clean ==
    /\ etlPc = "clean"
    /\ cleaned' = clean_dataframe(df_raw, min_rating, inferFormat)
    /\ etlPc' = "sentiment"
    /\ UNCHANGED <<rawDir, min_rating, inferFormat, df_raw, enriched, bus_metrics,
                   reviewsOut, busesOut, recleaned>>
    /\ UNCHANGED notEtl

\* enriched = apply_sentiment(cleaned)
etl_sentiment ==
    /\ etlPc = "sentiment"
    /\ enriched' = apply_sentiment(cleaned)
    /\ etlPc' = "aggregate"
    /\ UNCHANGED <<rawDir, min_rating, inferFormat, df_raw, cleaned, bus_metrics,
                   reviewsOut, busesOut, recleaned>>
    /\ UNCHANGED notEtl

\* bus_metrics = aggregate_bus_metrics(enriched)
etl_aggregate ==
    /\ etlPc = "aggregate"
    /\ bus_metrics' = aggregate_bus_metrics(enriched)
    /\ etlPc' = "persist"
    /\ UNCHANGED <<rawDir, min_rating, inferFormat, df_raw, cleaned, enriched,
                   reviewsOut, busesOut, recleaned>>
    /\ UNCHANGED notEtl

\* persist(enriched, bus_metrics, output_dir, parquet)
persist ==
    /\ etlPc = "persist"
    /\ reviewsOut' = ToCsv(enriched)
    /\ busesOut' = ToCsv(bus_metrics)
    /\ etlPc' = "done"
    /\ UNCHANGED <<rawDir, min_rating, inferFormat, df_raw, cleaned, enriched,
                   bus_metrics, recleaned>>
    /\ UNCHANGED notEtl

\* the clean step run a second time, on its own output, with the same threshold
clean_again ==
    /\ etlPc = "done"
    /\ recleaned' = clean_dataframe(cleaned, min_rating, inferFormat)
    /\ etlPc' = "recleaned"
    /\ UNCHANGED <<rawDir, min_rating, inferFormat, df_raw, cleaned, enriched,
                   bus_metrics, reviewsOut, busesOut>>
    /\ UNCHANGED notEtl

EtlNext ==
    \/ load_raw_files
    \/ etl_clean
    \/ etl_sentiment
    \/ etl_aggregate
    \/ persist
    \/ clean_again

\* the ETL pipeline when another component is the one running
EtlOff ==
    /\ rawDir = << >>
    /\ min_rating = 0
    /\ inferFormat = FALSE
    /\ etlPc = "off"
    /\ df_raw = EmptyFrame
    /\ cleaned = EmptyFrame
    /\ enriched = EmptyFrame
    /\ bus_metrics = EmptyFrame
    /\ reviewsOut = NoFile
    /\ busesOut = NoFile
    /\ recleaned = EmptyFrame

\* inputs whose dedup keys vary: bus, text and review date, and a rating
\* below or at the threshold
DedupRecords ==
    [bus_id : {"B1", "B2"},
     operator_name : {"Acme"},
     rating : {[kind |-> "num", v |-> 29], [kind |-> "num", v |-> 30]},
     review_text : {<<"a">>, <<" ", "a", "\t", " ">>, <<" ">>},
     review_date : {NULL, "2024-01-12", "12 Jan 2024"},
     journey_date : {"2024-02-01"}]

InitEtlDedup ==
    /\ rawDir \in RawDirs(DedupRecords, MaxDedupRows)
    /\ min_rating = 30
    /\ EtlStart
    /\ LoaderOff
    /\ ScraperIdle
    /\ DashOff /\ SentOff /\ ScrollOff

SpecEtlDedup == InitEtlDedup /\ [][EtlNext]_vars

\* inputs whose ratings and threshold vary
RatingRecords ==
    [bus_id : {"B1", "B2"},
     operator_name : {"Acme"},
     rating : {NanRating, [kind |-> "junk", v |-> 0], [kind |-> "num", v |-> 0],
               [kind |-> "num", v |-> 29], [kind |-> "num", v |-> 30],
               [kind |-> "text", v |-> 30]},
     review_text : {<<"a">>},
     review_date : {NULL},
     journey_date : {"2024-02-01"}]

MinRatings == {-10, 0, 1, 30}

InitEtlRating ==
    /\ rawDir \in RawDirs(RatingRecords, MaxRatingRows)
    /\ min_rating \in MinRatings
    /\ EtlStart
    /\ LoaderOff
    /\ ScraperIdle
    /\ DashOff /\ SentOff /\ ScrollOff

SpecEtlRating == InitEtlRating /\ [][EtlNext]_vars

\* inputs whose bus and rating vary; the i-th review has the i-th text
TextAt(i) == CASE i = 1 -> <<"g">> [] i = 2 -> <<"b">> [] i = 3 -> <<"a">>
               [] OTHER -> <<"a", " ", "g">>

AggRecords ==
    [bus_id : {NULL, "B1", "B2"},
     operator_name : {"Acme"},
     rating : {NanRating, [kind |-> "num", v |-> 40], [kind |-> "num", v |-> 50]},
     review_text : {NoText},
     review_date : {NULL},
     journey_date : {"2024-02-01"}]

InitEtlAgg ==
    /\ rawDir \in {<< >>} \cup
                  {<<[i \in 1..Len(f) |-> [f[i] EXCEPT !.review_text = TextAt(i)]]>> :
                     f \in SeqsUpTo(AggRecords, MaxAggRows)}
    /\ min_rating = 0
    /\ EtlStart
    /\ LoaderOff
    /\ ScraperIdle
    /\ DashOff /\ SentOff /\ ScrollOff

SpecEtlAgg == InitEtlAgg /\ [][EtlNext]_vars

(***************************************************************************)
(* Specifications of the loader and of the scraper.                        *)
(***************************************************************************)
InitLoader == LoaderInit /\ ScraperIdle /\ EtlOff /\ DashOff /\ SentOff /\ ScrollOff

SpecLoader == InitLoader /\ [][LoaderNext]_vars

InitScraper == ScraperInit /\ LoaderOff /\ EtlOff /\ DashOff /\ SentOff /\ ScrollOff

InitDash == DashInit /\ LoaderOff /\ ScraperIdle /\ EtlOff /\ SentOff /\ ScrollOff

InitSent == SentInit /\ LoaderOff /\ ScraperIdle /\ EtlOff /\ DashOff /\ ScrollOff

InitScroll == ScrollInit /\ LoaderOff /\ ScraperIdle /\ EtlOff /\ DashOff /\ SentOff

SpecDash == InitDash /\ [][DashNext]_vars

SpecSent == InitSent /\ [][SentNext]_vars

SpecScroll == InitScroll /\ [][ScrollNext]_vars

SpecScraper == InitScraper /\ [][ScraperNext]_vars

(***************************************************************************)
(* Properties of the database loader (checked under SpecLoader).           *)
(***************************************************************************)
\* the attributes of a stored Review other than its surrogate key
ReviewContent(r) == [bus_id |-> r.bus_id, review_date |-> r.review_date]

\* the Bus rows a buses.csv stands for
BusRowsOf(file) == {BusOf(file.rows[i]) : i \in 1..Len(file.rows)}

\* stored reviews `table` are, up to review_id, the rows of reviews.csv `file`,
\* each as many times as the file has it
SameReviews(table, file) ==
    /\ Cardinality(table) = Len(file.rows)
    /\ \A i \in 1..Len(file.rows) :
         Cardinality({r \in table : ReviewContent(r) = ReviewOf(file.rows[i])})
           = Cardinality({j \in 1..Len(file.rows) :
                            ReviewOf(file.rows[j]) = ReviewOf(file.rows[i])})

\* C1: as long as the current loader invocation has not completed its commit
\* (and so whenever it ends in an error), the store holds exactly the Bus and
\* Review rows it held when the invocation started.
LoaderTransactional ==
    loadExc # "committed" => (dbBuses = preBuses /\ dbReviews = preReviews)

\* C1 witness: an invocation with --replace against a populated store staged
\* its buses and both deletions, then failed on the reviews and has ended.
LoaderFailedAfterStaging ==
    /\ loadPc = "exit"
    /\ loadExc = "ValueError"
    /\ args.replace
    /\ Len(args.buses_csv.rows) > 0
    /\ preBuses # {}
    /\ preReviews # {}

\* C2: after a committed invocation with --replace the tables hold exactly
\* the rows of the new curated files; after a committed invocation without it
\* every earlier row is still there, unchanged, beside the new rows.
ReplaceModeSemantics ==
    loadExc = "committed" =>
        IF args.replace
        THEN /\ dbBuses = BusRowsOf(args.buses_csv)
             /\ SameReviews(dbReviews, args.reviews_csv)
        ELSE /\ preBuses \subseteq dbBuses
             /\ preReviews \subseteq dbReviews
             /\ dbBuses \ preBuses = BusRowsOf(args.buses_csv)
             /\ SameReviews(dbReviews \ preReviews, args.reviews_csv)

\* C2 witness: a committed --replace against a store that held a bus the new
\* buses.csv does not have, and a review.
ReplacedOldRows ==
    /\ loadExc = "committed"
    /\ args.replace
    /\ preReviews # {}
    /\ \E b \in preBuses : \A n \in BusRowsOf(args.buses_csv) : n.bus_id # b.bus_id

\* C3 (as claimed): whenever an invocation that opened a session has ended,
\* that session is closed.
SessionClosedAtExit ==
    (loadPc = "exit" /\ session # "none") => session = "closed"

\* C14 (as claimed): a review_date that is not a YYYY-MM-DD string never
\* makes the invocation fail: no invocation whose reviews.csv holds such a
\* date ends with the ValueError of parse_date.
UnparseableDateNeverFails ==
    (/\ loadPc = "exit"
     /\ \E i \in 1..Len(args.reviews_csv.rows) :
          LET v == args.reviews_csv.rows[i].review_date IN
          v # NULL /\ v # "" /\ StrptimeYmd(v) = << >>)
    => loadExc # "ValueError"

\* the new buses.csv has a bus_id the store held when the invocation started
BusIdInStore ==
    \E i \in 1..Len(args.buses_csv.rows) :
        \E b \in preBuses : b.bus_id = args.buses_csv.rows[i].bus_id

\* C16 (as claimed): every invocation without --replace whose buses.csv has
\* a bus_id the store already holds fails with the database error of the
\* commit, and the store keeps its rows.
AdditiveReloadFailsAtCommit ==
    (loadPc = "exit" /\ ~args.replace /\ BusIdInStore) =>
        /\ loadExc = "SQLAlchemyError"
        /\ dbBuses = preBuses
        /\ dbReviews = preReviews

\* C16 (amended): an invocation without --replace whose buses.csv has a
\* bus_id the store already holds never commits and the store keeps exactly
\* its previous rows; when such an invocation reaches session.commit(), the
\* commit fails with the primary-key conflict, the except clause rolls the
\* transaction back and the error is still in flight when main ends.
AdditiveReloadConflict ==
    /\ []((~args.replace /\ BusIdInStore) =>
             /\ loadExc # "committed"
             /\ dbBuses = preBuses
             /\ dbReviews = preReviews)
    /\ [][(loadPc = "commit" /\ ~args.replace /\ BusIdInStore) =>
             (loadPc' = "except" /\ loadExc' = "SQLAlchemyError")]_vars
    /\ [][loadPc = "except" =>
             /\ loadPc' = "finally"
             /\ txBuses' = dbBuses /\ txReviews' = dbReviews
             /\ pendingBuses' = << >> /\ pendingReviews' = << >>
             /\ loadExc' = "SQLAlchemyError"]_vars
    /\ [][(loadPc = "finally" /\ loadExc = "SQLAlchemyError") =>
             (loadPc' = "exit" /\ loadExc' = "SQLAlchemyError" /\ session' = "closed")]_vars

\* C16 witness: the same buses.csv was loaded a second time without
\* --replace, together with a review; the invocation ended with the database
\* error and the store has the rows of the first load only.
SecondAdditiveLoadFailed ==
    /\ loadPc = "exit"
    /\ runs = 2
    /\ ~args.replace
    /\ Len(args.buses_csv.rows) = 1
    /\ preBuses = BusRowsOf(args.buses_csv)
    /\ Len(args.reviews_csv.rows) = 1
    /\ args.reviews_csv.rows[1].review_date = "2024-01-12"
    /\ loadExc = "SQLAlchemyError"
    /\ session = "closed"
    /\ dbBuses = preBuses
    /\ dbReviews = preReviews

(***************************************************************************)
(* Properties of the scraper (checked under SpecScraper).                  *)
(***************************************************************************)
ScrapeEnded == scrPc \in {"returned", "raised"}

LoopErrorInFlight ==
    /\ scrExc = "WebDriverException"
    /\ excOrigin \notin {"Chrome", "implicitly_wait"}

CollectFailureAbsorbed ==
    scrExc # "none" => excOrigin \notin {"collect_open", "collect_close"}

\* C6: a run that returns has written exactly one payload file, holding the
\* live records if any was collected, else the sample file's content if the
\* file exists, else the empty list.
FallbackPayload ==
    /\ Len(written) <= 1
    /\ scrPc = "returned" =>
         /\ Len(written) = 1
         /\ written[1] = (IF collected # << >> THEN collected
                          ELSE IF sample.exists THEN sample.rows
                          ELSE << >>)

\* C6 witness: a run that opened a day, collected nothing and returned after
\* writing the non-empty sample payload.
SampleWritten ==
    /\ scrPc = "returned"
    /\ visitedDays # {}
    /\ collected = << >>
    /\ sample.exists
    /\ written = <<sample.rows>>
    /\ sample.rows # << >>

(***************************************************************************)
(* Properties of the ETL pipeline (checked under SpecEtlAgg, SpecEtlDedup  *)
(* and SpecEtlRating).                                                     *)
(***************************************************************************)
EtlPersisted == etlPc \in {"done", "recleaned"}

EtlCleaned == etlPc \notin {"off", "load", "clean"}

\* C7 (as claimed): no row of the reviews.csv an ETL run wrote has an absent
\* bus_id, and every bus_id in it has a row in the buses.csv of that run.
NoAbsentBusIdPersisted ==
    EtlPersisted =>
        \A i \in 1..Len(reviewsOut.rows) :
            /\ reviewsOut.rows[i].bus_id # NULL
            /\ \E j \in 1..Len(busesOut.rows) :
                 busesOut.rows[j].bus_id = reviewsOut.rows[i].bus_id

\* the raw rows that pass the text and rating filters, normalized
Passed == FilterAndNormalize(df_raw.rows, min_rating, inferFormat)

\* C8: no two cleaned rows share (bus_id, review_text, review_date); every
\* row that passed the filters is represented by a kept row of the same
\* triple that is not later in ingest order, so the kept row is the first
\* occurrence; and cleaning the cleaned table again, with the same threshold,
\* gives the same rows and row count.
DedupFirstOccurrence ==
    /\ EtlCleaned =>
         /\ \A i, j \in 1..Len(cleaned.rows) :
              i # j => DedupKey(cleaned.rows[i]) # DedupKey(cleaned.rows[j])
         /\ \A k \in 1..Len(cleaned.rows) :
              \E q \in 1..Len(Passed) : Passed[q].index = cleaned.rows[k].index
         /\ \A q \in 1..Len(Passed) :
              \E k \in 1..Len(cleaned.rows) :
                 /\ DedupKey(cleaned.rows[k]) = DedupKey(Passed[q])
                 /\ cleaned.rows[k].index <= Passed[q].index
    /\ etlPc = "recleaned" =>
         /\ Range(recleaned.rows) = Range(cleaned.rows)
         /\ Len(recleaned.rows) = Len(cleaned.rows)

\* C8 witness: two raw rows that differ as written (text with extra
\* whitespace, date in another format) had the same triple once normalized;
\* the first was kept, the second dropped, and the second pass has run.
DuplicateDropped ==
    /\ etlPc = "recleaned"
    /\ Len(df_raw.rows) = 2
    /\ df_raw.rows[1].review_text # df_raw.rows[2].review_text
    /\ df_raw.rows[1].review_date # df_raw.rows[2].review_date
    /\ Len(Passed) = 2
    /\ Len(cleaned.rows) = 1
    /\ cleaned.rows[1].index = 0

\* the rating the threshold is compared with: the rating when present and
\* parseable, 0 when missing or unparseable
ComparedRating(r) == IF r.kind \in {"num", "text"} THEN r.v ELSE 0

\* C9: a raw record with non-empty normalized text, and with a dedup triple
\* no other raw record has, is in the cleaned table if and only if its rating
\* (0 when missing or unparseable) is at least min_rating.
MinRatingFilter ==
    EtlCleaned =>
        \A i \in 1..Len(df_raw.rows) :
            LET r == df_raw.rows[i] IN
            (/\ NormalizeText(r.review_text) # << >>
             /\ \A j \in 1..Len(df_raw.rows) :
                  j # i => df_raw.rows[j].bus_id # r.bus_id)
            => ((\E k \in 1..Len(cleaned.rows) : cleaned.rows[k].index = r.index)
                <=> ComparedRating(r.rating) >= min_rating)

\* C9 witness: with min_rating 3.0, a record rated 2.9 was dropped and one
\* rated 3.0 was kept.
BoundaryRatingKept ==
    /\ EtlCleaned
    /\ min_rating = 30
    /\ Len(df_raw.rows) = 2
    /\ df_raw.rows[1].rating = [kind |-> "num", v |-> 29]
    /\ df_raw.rows[2].rating = [kind |-> "num", v |-> 30]
    /\ df_raw.rows[1].bus_id # df_raw.rows[2].bus_id
    /\ Len(cleaned.rows) = 1
    /\ cleaned.rows[1].index = 1

\* the enriched rows of bus b whose rating is present
RatedOf(b) ==
    {i \in 1..Len(enriched.rows) :
       enriched.rows[i].bus_id = b /\ enriched.rows[i].rating.kind = "num"}

RECURSIVE SumOver(_)
SumOver(S) ==
    IF S = {} THEN 0
    ELSE LET i == CHOOSE x \in S : TRUE IN
         enriched.rows[i].rating.v + SumOver(S \ {i})

\* C10: for every bus_id of the enriched table buses.csv has exactly one
\* row; its rating_count is the number of present ratings of the bus and its
\* avg_rating their mean (absent when there is none).
AggregateCorrect ==
    EtlPersisted =>
        \A b \in {enriched.rows[i].bus_id : i \in 1..Len(enriched.rows)} \ {NULL} :
            /\ Cardinality({j \in 1..Len(busesOut.rows) : busesOut.rows[j].bus_id = b}) = 1
            /\ \A j \in 1..Len(busesOut.rows) :
                 busesOut.rows[j].bus_id = b =>
                    LET row == busesOut.rows[j]
                        n == Cardinality(RatedOf(b))
                    IN /\ row.rating_count = n
                       /\ IF n = 0 THEN row.avg_rating = NaN
                          ELSE /\ row.avg_rating # NaN
                               /\ row.avg_rating[1] * n = row.avg_rating[2] * SumOver(RatedOf(b))

\* C10 witness: bus B1 has three reviews rated 4, 5 and absent; its
\* buses.csv row has avg_rating 4.5 and rating_count 2.
ThreeReviewsOneAbsent ==
    /\ EtlPersisted
    /\ Len(enriched.rows) = 3
    /\ \A i \in 1..3 : enriched.rows[i].bus_id = "B1"
    /\ enriched.rows[1].rating = [kind |-> "num", v |-> 40]
    /\ enriched.rows[2].rating = [kind |-> "num", v |-> 50]
    /\ enriched.rows[3].rating = NanRating
    /\ Len(busesOut.rows) = 1
    /\ busesOut.rows[1].avg_rating = <<45, 1>>
    /\ busesOut.rows[1].rating_count = 2

\* C11 (as claimed): an ETL run on a raw directory without any JSON file
\* writes a reviews.csv and a buses.csv that both have a header row naming
\* the curated columns and no data row.
EmptyInputWritesHeaders ==
    (EtlPersisted /\ rawDir = << >>) =>
        /\ reviewsOut.exists /\ busesOut.exists
        /\ reviewsOut.rows = << >> /\ busesOut.rows = << >>
        /\ {"bus_id", "review_text", "sentiment"} \subseteq reviewsOut.header
        /\ {"bus_id", "avg_rating", "rating_count"} \subseteq busesOut.header

(***************************************************************************)
(* Properties of the dashboard (checked under SpecDash).                   *)
(***************************************************************************)
\* the keyword occurs in the text as a substring
Contains(kw, text) ==
    \E off \in 0..(Len(text) - Len(kw)) : \A i \in 1..Len(kw) : kw[i] = text[off + i]

\* the row satisfies every active predicate of the selection
SatisfiesAll(r, f) ==
    /\ f.operator # {} => r.operator_name \in f.operator
    /\ f.bus_type # {} => r.bus_type \in f.bus_type
    /\ f.sentiment # {} => r.sentiment \in f.sentiment
    /\ r.rating # NaN /\ f.rating_range[1] <= r.rating[1] /\ r.rating[1] <= f.rating_range[2]
    /\ f.route_keyword # << >> =>
          r.route # NULL /\ Contains(Lower(f.route_keyword), Lower(r.route))

\* C12 (as claimed): for every table and selection apply_filters returns
\* exactly the rows that satisfy all active predicates, the route keyword
\* being a case-insensitive substring, and leaves its input as it was.
FiltersComposeExactly ==
    appPc # "loaded" =>
        /\ appPc = "filtered"
        /\ filtered = SelectSeq(inputBefore, LAMBDA r : SatisfiesAll(r, filters))
        /\ reviews_df = inputBefore

(***************************************************************************)
(* Properties of the sentiment analyzer (checked under SpecSent).          *)
(***************************************************************************)
\* C13: for a non-empty text whose compound is c, analyze returns score c
\* and the one label the thresholds give: positive iff c >= 0.05, negative
\* iff c <= -0.05, neutral otherwise; for an empty or absent text it returns
\* neutral with score 0 and the scorer is not called.
SentimentThresholds ==
    sentPc = "returned" =>
        IF sentText = << >> \/ sentText = NoText
        THEN /\ sentResult = [label |-> "neutral", score |-> 0]
             /\ scorerCalls = 0
        ELSE /\ scorerCalls = 1
             /\ sentResult.score = sentCompound
             /\ sentResult.label \in {"positive", "negative", "neutral"}
             /\ sentResult.label = "positive" <=> sentCompound >= 5
             /\ sentResult.label = "negative" <=> sentCompound <= 0 - 5
             /\ sentResult.label = "neutral" <=> (0 - 5 < sentCompound /\ sentCompound < 5)

\* C13 witness: a non-empty text whose compound is exactly 0.05 was
\* labelled positive.
PositiveAtThreshold ==
    /\ sentPc = "returned"
    /\ sentText = <<"a">>
    /\ sentCompound = 5
    /\ sentResult = [label |-> "positive", score |-> 5]

(***************************************************************************)
(* Properties of the scroll loop (checked under SpecScroll).               *)
(***************************************************************************)
\* C15 (as claimed): the counter of the loop is the number of consecutive
\* scrolls that produced no growth (height not greater than the last
\* recorded one), being reset only by a scroll after which the height has
\* increased, and the loop has returned only if that number reached
\* max_scroll_attempts.
CounterCountsNoGrowth ==
    /\ scrollPc \in {"loop", "returned"} => attempts = noGrowthRun
    /\ scrollPc = "returned" => noGrowthRun >= max_scroll_attempts

====
